---------------------------- MODULE Spec2Model ----------------------------
(***************************************************************************)
(* A model of go-config (config.go, error.go): path-addressed Read, Write  *)
(* and ReadString over a value graph inspected through reflection.         *)
(*                                                                         *)
(* Go strings are modelled as sequences of code points, so that            *)
(* strings.Split, strings.EqualFold, the "." joins of error.go and         *)
(* strconv.FormatInt are computed and not assumed.  Type names and kind    *)
(* names (reflect.Type.String(), reflect.Kind.String()) are TLA+ strings.  *)
(*                                                                         *)
(* The heap holds what Go shares by reference: the variables pointers      *)
(* point to (cells) and the maps.  Struct values are held inline.          *)
(***************************************************************************)
EXTENDS Integers, Sequences, FiniteSets, TLC

VARIABLES
    heap,   \* [cells, maps]: the variables reachable by pointer, and the maps
    Data,   \* config.Data: the value held by the handle
    arg,    \* the value the caller passed to New (never changes)
    last,   \* the last call and what it returned
    pre,    \* heap and Data as they were when the last call started
    nw      \* number of Write calls so far

vars == <<heap, Data, arg, last, pre, nw>>

\* Number of Write calls explored from a fresh handle.
MaxWrites == 2

---------------------------------------------------------------------------
(* Strings *)

K_my == <<109, 121>>  \* "my"
K_MY == <<77, 89>>  \* "MY"
K_bar == <<98, 97, 114>>  \* "bar"
K_deep == <<101, 120, 111, 116, 105, 99, 46, 101, 120, 111, 116, 105, 99, 46, 101, 120, 111, 116, 105, 99, 46, 101, 120, 111, 116, 105, 99, 46, 109, 121>>  \* "exotic.exotic.exotic.exotic.my"
K_deepU == <<101, 120, 111, 116, 105, 99, 46, 69, 88, 79, 84, 73, 67, 46, 109, 121>>  \* "exotic.EXOTIC.my"
K_foo == <<102, 111, 111>>  \* "foo"
K_FOO == <<70, 79, 79>>  \* "FOO"
K_foo_bar == <<102, 111, 111, 46, 98, 97, 114>>  \* "foo.bar"
K_foo_BAR == <<102, 111, 111, 46, 66, 65, 82>>  \* "foo.BAR"
K_ptr_my == <<112, 116, 114, 46, 109, 121>>  \* "ptr.my"
K_any_my == <<97, 110, 121, 46, 109, 121>>  \* "any.my"
K_any == <<97, 110, 121>>  \* "any"
K_num == <<110, 117, 109>>  \* "num"
K_deepL == <<101, 120, 111, 116, 105, 99, 46, 101, 120, 111, 116, 105, 99, 46, 109, 121>>  \* "exotic.exotic.my"
N_My == <<77, 121>>  \* "My"
N_Exotic == <<69, 120, 111, 116, 105, 99>>  \* "Exotic"
N_Configuration == <<67, 111, 110, 102, 105, 103, 117, 114, 97, 116, 105, 111, 110>>  \* "Configuration"
N_Foo == <<70, 111, 111>>  \* "Foo"
N_Ptr == <<80, 116, 114>>  \* "Ptr"
N_Any == <<65, 110, 121>>  \* "Any"
N_Num == <<78, 117, 109>>  \* "Num"
S_Demo == <<68, 101, 109, 111>>  \* "Demo"
S_Success == <<83, 117, 99, 99, 101, 115, 115, 33>>  \* "Success!"
S_Bar == <<66, 97, 114>>  \* "Bar"
S_x == <<120>>  \* "x"
S_exotic == <<101, 120, 111, 116, 105, 99>>  \* "exotic"

\* The keys the callers pass to Read, Write and ReadString.
Keys ==
    { K_my, K_MY, K_bar, K_deep, K_deepU, K_foo, K_FOO, K_foo_bar, K_foo_BAR,
      K_ptr_my, K_any_my, K_any, K_num, K_deepL }

\* strings.Split(key, "."): never empty; "" splits into one empty segment.
RECURSIVE Split(_)
Split(s) ==
    IF \A i \in 1..Len(s) : s[i] # 46
    THEN <<s>>
    ELSE LET i == CHOOSE j \in 1..Len(s) :
                      s[j] = 46 /\ \A l \in 1..(j - 1) : s[l] # 46
         IN  <<SubSeq(s, 1, i - 1)>> \o Split(SubSeq(s, i + 1, Len(s)))

\* key + "." + e.Keys
Prepend(key, keys) == key \o <<46>> \o keys

\* Simple case folding of one code point (ASCII letters).
Fold(c) == IF c >= 65 /\ c <= 90 THEN c + 32 ELSE c

\* strings.EqualFold
EqualFold(a, b) ==
    /\ Len(a) = Len(b)
    /\ \A i \in 1..Len(a) : Fold(a[i]) = Fold(b[i])

RECURSIVE Digits(_)
Digits(n) == IF n < 10 THEN <<48 + n>> ELSE Digits(n \div 10) \o <<48 + (n % 10)>>

\* strconv.FormatInt(n, 10)
FormatInt(n) == IF n < 0 THEN <<45>> \o Digits(0 - n) ELSE Digits(n)

\* strconv.FormatBool
FormatBool(b) == IF b THEN <<116, 114, 117, 101>> ELSE <<102, 97, 108, 115, 101>>

\* string(rune(n)): the code point itself, U+FFFD when n is no valid code point.
RuneString(n) ==
    IF n < 0 \/ n > 1114111 \/ (n >= 55296 /\ n <= 57343) THEN <<65533>> ELSE <<n>>

---------------------------------------------------------------------------
(* Types *)

SignedTypes == {"int", "int8", "int16", "int32", "int64"}
UnsignedTypes == {"uint", "uint8", "uint16", "uint32", "uint64", "uintptr"}
IntTypes == SignedTypes \cup UnsignedTypes
ScalarTypes == IntTypes \cup {"string", "bool"}
MapTypes ==
    {"map[string]string", "map[string]config.Config", "map[string]*config.Config"}
StructTypes == {"config.Config", "config.data", "config.leaves"}
PtrTypes ==
    { "*config.Config", "**config.Config", "*config.data",
      "*map[string]string", "*config.leaves" }

\* reflect.Type.Kind().String()
KindOf(t) ==
    CASE t \in ScalarTypes -> t
      [] t = "interface {}" -> "interface"
      [] t \in MapTypes -> "map"
      [] t \in StructTypes -> "struct"
      [] t \in PtrTypes -> "ptr"
      [] OTHER -> "invalid"

\* reflect.Type.Elem() of a map or pointer type
ElemT(t) ==
    CASE t = "map[string]string" -> "string"
      [] t = "map[string]config.Config" -> "config.Config"
      [] t = "map[string]*config.Config" -> "*config.Config"
      [] t = "*config.Config" -> "config.Config"
      [] t = "**config.Config" -> "*config.Config"
      [] t = "*config.data" -> "config.data"
      [] t = "*map[string]string" -> "map[string]string"
      [] t = "*config.leaves" -> "config.leaves"

\* reflect.PtrTo
PtrTo(t) == "*" \o t

L_I == <<73>>  \* "I"
L_I8 == <<73, 56>>  \* "I8"
L_I16 == <<73, 49, 54>>  \* "I16"
L_I32 == <<73, 51, 50>>  \* "I32"
L_I64 == <<73, 54, 52>>  \* "I64"
L_U == <<85>>  \* "U"
L_U8 == <<85, 56>>  \* "U8"
L_U16 == <<85, 49, 54>>  \* "U16"
L_U32 == <<85, 51, 50>>  \* "U32"
L_U64 == <<85, 54, 52>>  \* "U64"
L_Up == <<85, 112>>  \* "Up"
L_B == <<66>>  \* "B"
L_S == <<83>>  \* "S"
L_M == <<77>>  \* "M"

\* The fields of a struct type, in declaration order.
\*   Config: the type of the README and of the examples.
\*   data:   the test type {Foo map[string]string}, with a pointer, an
\*           interface and a narrow integer field added.
\*   leaves: one field per leaf kind, for ReadString.
Fields(t) ==
    CASE t = "config.Config" ->
           << [name |-> N_My, typ |-> "string"],
              [name |-> N_Exotic, typ |-> "map[string]config.Config"],
              [name |-> N_Configuration, typ |-> "bool"] >>
      [] t = "config.data" ->
           << [name |-> N_Foo, typ |-> "map[string]string"],
              [name |-> N_Ptr, typ |-> "*config.Config"],
              [name |-> N_Any, typ |-> "interface {}"],
              [name |-> N_Num, typ |-> "int8"] >>
      [] t = "config.leaves" ->
           << [name |-> L_I, typ |-> "int"], [name |-> L_I8, typ |-> "int8"],
              [name |-> L_I16, typ |-> "int16"], [name |-> L_I32, typ |-> "int32"],
              [name |-> L_I64, typ |-> "int64"], [name |-> L_U, typ |-> "uint"],
              [name |-> L_U8, typ |-> "uint8"], [name |-> L_U16, typ |-> "uint16"],
              [name |-> L_U32, typ |-> "uint32"], [name |-> L_U64, typ |-> "uint64"],
              [name |-> L_Up, typ |-> "uintptr"], [name |-> L_B, typ |-> "bool"],
              [name |-> L_S, typ |-> "string"],
              [name |-> L_M, typ |-> "map[string]string"] >>

FieldNames(t) == { Fields(t)[i].name : i \in 1..Len(Fields(t)) }

---------------------------------------------------------------------------
(* Values.  Every value is a record of the same shape:                     *)
(*   t: its dynamic type; n: the number of an integer, 0/1 of a bool;      *)
(*   s: the text of a string; f: the fields of a struct;                   *)
(*   r: the map or the cell a map or pointer refers to, 0 when nil.        *)

NoFields == <<>>

\* the nil interface value
NilV == [t |-> "nil", n |-> 0, s |-> <<>>, f |-> NoFields, r |-> 0]

StrV(s) == [t |-> "string", n |-> 0, s |-> s, f |-> NoFields, r |-> 0]
IntV(t, n) == [t |-> t, n |-> n, s |-> <<>>, f |-> NoFields, r |-> 0]
BoolV(b) == [t |-> "bool", n |-> IF b THEN 1 ELSE 0, s |-> <<>>, f |-> NoFields, r |-> 0]
RefV(t, r) == [t |-> t, n |-> 0, s |-> <<>>, f |-> NoFields, r |-> r]
StructV(t, f) == [t |-> t, n |-> 0, s |-> <<>>, f |-> f, r |-> 0]

FieldType(t, nm) ==
    Fields(t)[CHOOSE i \in 1..Len(Fields(t)) : Fields(t)[i].name = nm].typ

\* The zero value of a type (reflect.New(t).Elem()).
RECURSIVE Zero(_)
Zero(t) ==
    CASE KindOf(t) = "struct" ->
           StructV(t, [nm \in FieldNames(t) |-> Zero(FieldType(t, nm))])
      [] KindOf(t) = "interface" -> NilV
      [] KindOf(t) = "string" -> StrV(<<>>)
      [] OTHER -> RefV(t, 0)

---------------------------------------------------------------------------
(* Conversion (reflect.Value.CanConvert, Convert).  Floats, complex        *)
(* numbers, slices and named types are left out of the model.              *)

IsInt(t) == t \in IntTypes

\* v.CanConvert(T), from the type vt of v
CanConvert(vt, T) ==
    \/ KindOf(T) = "interface"              \* every type implements interface{}
    \/ vt = T
    \/ IsInt(vt) /\ IsInt(T)
    \/ IsInt(vt) /\ KindOf(T) = "string"    \* an integer converts to a rune's text

\* Integer conversion keeps the low bits of the destination's width.  The
\* model's integers stay far below 2^31, so only 8 and 16 bits can wrap.
Wrap(n, T) ==
    CASE T = "int8" -> ((n + 128) % 256) - 128
      [] T = "int16" -> ((n + 32768) % 65536) - 32768
      [] T = "uint8" -> n % 256
      [] T = "uint16" -> n % 65536
      [] OTHER -> n

\* v.Convert(T) of a value x with CanConvert(x.t, T)
Convert(x, T) ==
    CASE KindOf(T) = "interface" -> x       \* the interface holds x itself
      [] x.t = T -> x
      [] IsInt(x.t) /\ IsInt(T) -> IntV(T, Wrap(x.n, T))
      [] IsInt(x.t) /\ KindOf(T) = "string" -> StrV(RuneString(x.n))
      [] OTHER -> x

\* Assignability, as reflect.Value.SetMapIndex demands of the element.
Assignable(vt, T) == vt = T \/ KindOf(T) = "interface"

---------------------------------------------------------------------------
(* reflect.Value: a type, and either a place (addressable: a cell and a    *)
(* path of field names into the struct held there) or a copied value.      *)

NoLoc == [cell |-> 0, path |-> <<>>]

\* the zero reflect.Value
Invalid == [typ |-> "invalid", loc |-> NoLoc, val |-> NilV]

Direct(t, x) == [typ |-> t, loc |-> NoLoc, val |-> x]
Place(t, cell, path) == [typ |-> t, loc |-> [cell |-> cell, path |-> path], val |-> NilV]

CanAddr(V) == V.loc.cell # 0
\* every field of the model is exported, so a field can be set when addressable
CanSet(V) == CanAddr(V)

RECURSIVE GetAt(_, _)
GetAt(x, path) == IF path = <<>> THEN x ELSE GetAt(x.f[Head(path)], Tail(path))

RECURSIVE SetAt(_, _, _)
SetAt(x, path, y) ==
    IF path = <<>> THEN y
    ELSE [x EXCEPT !.f[Head(path)] = SetAt(x.f[Head(path)], Tail(path), y)]

\* what a reflect.Value holds now
Content(V, h) ==
    IF CanAddr(V) THEN GetAt(h.cells[V.loc.cell], V.loc.path) ELSE V.val

\* reflect.ValueOf(x) of an interface{} holding x
ValueOf(x) == IF x = NilV THEN Invalid ELSE Direct(x.t, x)

\* v.Elem() of a pointer or interface
Elem(V, h) ==
    LET c == Content(V, h) IN
    IF KindOf(V.typ) = "ptr"
    THEN IF c.r = 0 THEN Invalid ELSE Place(ElemT(V.typ), c.r, <<>>)
    ELSE ValueOf(c)

\* v.Field(i): addressable when v is
Field(V, f, h) ==
    IF CanAddr(V)
    THEN Place(f.typ, V.loc.cell, Append(V.loc.path, f.name))
    ELSE Direct(f.typ, V.val.f[f.name])

\* v.Set(x) on an addressable v
SetValue(h, V, x) ==
    [h EXCEPT !.cells[V.loc.cell] = SetAt(@, V.loc.path, x)]

\* reflect.New(t): a fresh variable holding x; its number is the pointer
NewCell(h, x) == [h EXCEPT !.cells = Append(@, x)]
NewCellId(h) == Len(h.cells) + 1

\* reflect.MakeMap
MakeMap(h) == [h EXCEPT !.maps = Append(@, <<>>)]
NewMapId(h) == Len(h.maps) + 1

\* SetMapIndex on a map made anew for the entry, the others lost.
SetMapIndexAlone(h, m, key, x) ==
    [h EXCEPT !.maps[m] = [k \in {key} |-> x]]

\* m.SetMapIndex(key, x)
SetMapIndex(h, m, key, x) ==
    LET old == h.maps[m] IN
    [h EXCEPT !.maps[m] =
        [k \in (DOMAIN old) \cup {key} |-> IF k = key THEN x ELSE old[k]]]

---------------------------------------------------------------------------
(* error.go *)

NoErr == [kind |-> "nil", keys |-> <<>>, info |-> ""]

ErrNoSuchKey(name) == [kind |-> "NoSuchKey", keys |-> name, info |-> ""]
ErrUnhandledKind(kind, name) == [kind |-> "UnhandledKind", keys |-> name, info |-> kind]
ErrIncompatibleType(typ, name) == [kind |-> "IncompatibleType", keys |-> name, info |-> typ]

\* A panic of the reflect package: no error value, the call does not return.
Panic(what) == [kind |-> "panic", keys |-> <<>>, info |-> what]
IsPanic(err) == err.kind = "panic"

\* From with the key put after the path (a slip in error.go:33).
FromAppends(err, key) ==
    IF IsPanic(err) THEN err ELSE [err EXCEPT !.keys = Prepend(@, key)]

\* ConfigurationError.From: prepends the key.  A panic passes through the
\* frames untouched.
From(err, key) ==
    IF IsPanic(err) THEN err ELSE [err EXCEPT !.keys = Prepend(key, @)]

---------------------------------------------------------------------------
(* config.write *)

Res(v, err, h) == [v |-> v, err |-> err, h |-> h]

\* MatchField comparing the names exactly (== for strings.EqualFold).
MatchFieldExact(t, name) ==
    LET hit == { i \in 1..Len(Fields(t)) : name = Fields(t)[i].name }
    IN  IF hit = {} THEN 0 ELSE CHOOSE i \in hit : \A j \in hit : i <= j

\* The first field whose name matches, 0 when there is none.
MatchField(t, name) ==
    LET hit == { i \in 1..Len(Fields(t)) : EqualFold(name, Fields(t)[i].name) }
    IN  IF hit = {} THEN 0 ELSE CHOOSE i \in hit : \A j \in hit : i <= j

\* MatchKey comparing the keys exactly (== for strings.EqualFold).
MatchKeyExact(m, name) == { k \in DOMAIN m : name = k }

\* The keys of a map that match.  The maps of the model never hold two keys
\* equal under folding (NoFoldedTwins), so the order of MapRange is immaterial.
MatchKey(m, name) == { k \in DOMAIN m : EqualFold(name, k) }

\* e.Addr() of the variable a pointer frame wrote into
Addr(V) == Direct(PtrTo(V.typ), RefV(PtrTo(V.typ), V.loc.cell))

\* The pointer frame's return: the address of e, or a new variable for it.
Rewrap(e, h) ==
    IF CanAddr(e)
    THEN Res(Addr(e), NoErr, h)
    ELSE Res(Direct(PtrTo(e.typ), RefV(PtrTo(e.typ), NewCellId(h))),
             NoErr, NewCell(h, Content(e, h)))

\* The struct frame's check of the value written back.
FieldAccepts(vt, T) == CanConvert(vt, T)

\* StructAssign that sets only a field that can be set, and makes no copy
\* of a struct passed by value.
StructAssignInPlaceOnly(element, f, e, v, h) ==
    IF ~CanSet(e)
    THEN Res(element, NoErr, h)
    ELSE Res(element, NoErr, SetValue(h, e, Convert(Content(v, h), f.typ)))

\* The struct frame's assignment: in place when the field can be set, into
\* a copy of the struct otherwise.
StructAssign(element, f, e, v, h) ==
    LET x == Convert(Content(v, h), f.typ) IN
    IF ~CanSet(e)
    THEN LET h1 == NewCell(h, Content(element, h))
             n == Place(element.typ, NewCellId(h), <<>>)
         IN  Res(n, NoErr, SetValue(h1, Field(n, f, h1), x))
    ELSE Res(element, NoErr, SetValue(h, e, x))

\* The map frame's store under a key that exists: no conversion, and
\* SetMapIndex panics on a value that is not assignable.
MapUpdate(el, m, k, v, h) ==
    IF ~Assignable(v.typ, ElemT(el.typ))
    THEN Res(el, Panic("reflect.Value.SetMapIndex"), h)
    ELSE Res(el, NoErr, SetMapIndex(h, m, k, Content(v, h)))

\* MapInsert that stores the value before it checks its type.
MapInsertStoresFirst(el, m, name, v, h) ==
    LET t == ElemT(el.typ) IN
    IF ~CanConvert(v.typ, t)
    THEN Res(el, ErrIncompatibleType(t, name), SetMapIndex(h, m, name, Content(v, h)))
    ELSE Res(el, NoErr, SetMapIndex(h, m, name, Convert(Content(v, h), t)))

\* The map frame's store under a new key.
MapInsert(el, m, name, v, h) ==
    LET t == ElemT(el.typ) IN
    IF ~CanConvert(v.typ, t)
    THEN Res(el, ErrIncompatibleType(t, name), h)
    ELSE Res(el, NoErr, SetMapIndex(h, m, name, Convert(Content(v, h), t)))

\* write's default case: a kind it does not descend into.
Unhandled(element, key, h) ==
    [v |-> element, err |-> ErrUnhandledKind(KindOf(element.typ), Head(key)), h |-> h]

RECURSIVE write(_, _, _, _)
write(key, element, value, h) ==
    IF Len(key) = 0 THEN Res(ValueOf(value), NoErr, h)
    ELSE LET k == KindOf(element.typ) IN
    CASE k = "interface" ->
           LET r == write(key, Elem(element, h), value, h) IN
           IF r.err # NoErr THEN Res(element, r.err, r.h)
           ELSE Res(ValueOf(Content(r.v, r.h)), NoErr, r.h)
      [] k = "ptr" ->
           LET r == write(key, Elem(element, h), value, h) IN
           IF r.err # NoErr THEN Res(element, r.err, r.h)
           ELSE Rewrap(r.v, r.h)
      [] k = "struct" ->
           LET name == Head(key)
               i == MatchField(element.typ, name)
           IN  IF i = 0 THEN Res(element, ErrNoSuchKey(name), h)
               ELSE LET f == Fields(element.typ)[i]
                        e == Field(element, f, h)
                        r == write(Tail(key), e, value, h)
                    IN  IF r.err # NoErr THEN Res(element, From(r.err, name), r.h)
                        ELSE IF ~FieldAccepts(r.v.typ, f.typ)
                        THEN Res(element, ErrIncompatibleType(f.typ, name), r.h)
                        ELSE StructAssign(element, f, e, r.v, r.h)
      [] k = "map" ->
           LET name == Head(key)
               isNil == Content(element, h).r = 0
               h1 == IF isNil THEN MakeMap(h) ELSE h
               el == IF isNil
                     THEN Direct(element.typ, RefV(element.typ, NewMapId(h)))
                     ELSE element
               m == Content(el, h1).r
               hit == MatchKey(h1.maps[m], name)
           IN  IF hit # {}
               THEN LET k0 == CHOOSE x \in hit : TRUE
                        r == write(Tail(key), Direct(ElemT(el.typ), h1.maps[m][k0]),
                                   value, h1)
                    IN  IF r.err # NoErr THEN Res(el, From(r.err, name), r.h)
                        ELSE MapUpdate(el, m, k0, r.v, r.h)
               ELSE LET r == write(Tail(key), Direct(ElemT(el.typ), Zero(ElemT(el.typ))),
                                   value, h1)
                    IN  IF r.err # NoErr THEN Res(el, From(r.err, name), r.h)
                        ELSE MapInsert(el, m, name, r.v, r.h)
      [] OTHER -> Unhandled(element, key, h)

\* config.Write: the heap after the call, the new Data, and the error.
WriteCall(key, value, h, data) ==
    LET r == write(Split(key), ValueOf(data), value, h) IN
    [err |-> r.err, h |-> r.h,
     data |-> IF r.err = NoErr THEN Content(r.v, r.h) ELSE data]

---------------------------------------------------------------------------
(* config.read *)

RECURSIVE read(_, _, _)
read(key, element, h) ==
    IF Len(key) = 0 THEN [val |-> Content(element, h), err |-> NoErr]
    ELSE LET k == KindOf(element.typ) IN
    CASE k \in {"interface", "ptr"} -> read(key, Elem(element, h), h)
      [] k = "struct" ->
           LET name == Head(key)
               i == MatchField(element.typ, name)
           IN  IF i = 0 THEN [val |-> NilV, err |-> ErrNoSuchKey(name)]
               ELSE LET r == read(Tail(key), Field(element, Fields(element.typ)[i], h), h)
                    IN  IF r.err # NoErr THEN [r EXCEPT !.err = From(@, name)] ELSE r
      [] k = "map" ->
           LET name == Head(key)
               m == Content(element, h).r
               hit == IF m = 0 THEN {} ELSE MatchKey(h.maps[m], name)
           IN  IF hit = {} THEN [val |-> NilV, err |-> ErrNoSuchKey(name)]
               ELSE LET k0 == CHOOSE x \in hit : TRUE
                        r == read(Tail(key), Direct(ElemT(element.typ), h.maps[m][k0]), h)
                    IN  IF r.err # NoErr THEN [r EXCEPT !.err = From(@, name)] ELSE r
      [] OTHER ->
           [val |-> Content(element, h),
            err |-> ErrUnhandledKind(k, Head(key))]

\* config.Read
ReadCall(key, h, data) == read(Split(key), ValueOf(data), h)

\* The kinds ReadString formats as decimal integers.
DecimalKinds == {"int", "int8", "int32", "int64"}

\* config.ReadString, after a Read that returned x without error.
Project(x, key) ==
    LET k == KindOf(x.t) IN
    CASE k = "string" -> [str |-> x.s, err |-> NoErr]
      [] k \in DecimalKinds -> [str |-> FormatInt(x.n), err |-> NoErr]
      [] k = "bool" -> [str |-> FormatBool(x.n = 1), err |-> NoErr]
      [] x = NilV ->       \* CanConvert of the zero reflect.Value panics
           [str |-> <<>>, err |-> Panic("reflect.Value.Type")]
      [] OTHER ->
           IF CanConvert(x.t, "string")
           THEN [str |-> Convert(x, "string").s, err |-> NoErr]
           ELSE [str |-> <<>>, err |-> ErrUnhandledKind(k, key)]

ReadStringCall(key, h, data) ==
    LET r == ReadCall(key, h, data) IN
    IF r.err # NoErr THEN [str |-> <<>>, err |-> r.err] ELSE Project(r.val, key)

---------------------------------------------------------------------------
(* The callers: the roots handed to New, and the calls. *)

ConfigV(my, exotic) ==
    StructV("config.Config",
        (N_My :> StrV(my)) @@ (N_Exotic :> RefV("map[string]config.Config", exotic))
        @@ (N_Configuration :> BoolV(FALSE)))

DataV(foo, ptr, any, num) ==
    StructV("config.data",
        (N_Foo :> RefV("map[string]string", foo)) @@ (N_Ptr :> RefV("*config.Config", ptr))
        @@ (N_Any :> any) @@ (N_Num :> IntV("int8", num)))

Heap(cells, maps) == [cells |-> cells, maps |-> maps]

\* The roots: what the caller built and what it passed to New.
Roots ==
    { \* demo := &Config{My: "Demo"}; New(&demo)       (README, examples)
      [h |-> Heap(<<ConfigV(S_Demo, 0), RefV("*config.Config", 1)>>, <<>>),
       v |-> RefV("**config.Config", 2)],
      \* d := map[string]string{}; New(&d)              (TestConfig_WriteMap)
      [h |-> Heap(<<RefV("map[string]string", 1)>>, << <<>> >>),
       v |-> RefV("*map[string]string", 1)],
      \* var d map[string]string; New(&d)
      [h |-> Heap(<<RefV("map[string]string", 0)>>, <<>>),
       v |-> RefV("*map[string]string", 1)],
      \* New(map[string]string{"Bar": "x"})
      [h |-> Heap(<<>>, << (S_Bar :> StrV(S_x)) >>),
       v |-> RefV("map[string]string", 1)],
      \* New(map[string]*Config{})
      [h |-> Heap(<<>>, << <<>> >>),
       v |-> RefV("map[string]*config.Config", 1)],
      \* var p *Config; New(p)
      [h |-> Heap(<<>>, <<>>),
       v |-> RefV("*config.Config", 0)],
      \* New(data{})
      [h |-> Heap(<<>>, <<>>),
       v |-> DataV(0, 0, NilV, 0)],
      \* d := data{}; New(&d)                           (TestConfig_WriteStructMap)
      [h |-> Heap(<<DataV(0, 0, NilV, 0)>>, <<>>),
       v |-> RefV("*config.data", 1)],
      \* d := data{Foo: {"Bar": "x"}, Ptr: &Config{My: "Demo"},
      \*           Any: Config{My: "Demo"}, Num: 7}; New(&d)
      [h |-> Heap(<<DataV(1, 2, ConfigV(S_Demo, 0), 7), ConfigV(S_Demo, 0)>>,
                  << (S_Bar :> StrV(S_x)) >>),
       v |-> RefV("*config.data", 1)] }

\* The values the callers write.
Values == { StrV(S_Success), StrV(S_Bar), IntV("int", 300), BoolV(TRUE) }

Call(op, key, val, err, res, str) ==
    [op |-> op, key |-> key, val |-> val, err |-> err, res |-> res, str |-> str]

\* New(v)
Init ==
    \E root \in Roots :
        /\ heap = root.h
        /\ Data = root.v
        /\ arg = root.v
        /\ last = Call("New", <<>>, NilV, NoErr, NilV, <<>>)
        /\ pre = [heap |-> root.h, Data |-> root.v]
        /\ nw = 0

\* The callers are those of config_test.go: New, then Writes, then one Read
\* or ReadString of what the Writes left.  Read and ReadString change
\* nothing the handle holds, so a call after them finds what it would have
\* found before them, and every state the Writes reach is read under every
\* key.
Writing == last.op \in {"New", "Write"}

Write(key, value) ==
    /\ nw < MaxWrites
    /\ Writing
    /\ LET w == WriteCall(key, value, heap, Data) IN
        /\ heap' = w.h
        /\ Data' = w.data
        /\ last' = Call("Write", key, value, w.err, NilV, <<>>)
    /\ pre' = [heap |-> heap, Data |-> Data]
    /\ nw' = nw + 1
    /\ UNCHANGED arg

Read(key) ==
    /\ Writing
    /\ LET r == ReadCall(key, heap, Data) IN
        last' = Call("Read", key, NilV, r.err, r.val, <<>>)
    /\ pre' = [heap |-> heap, Data |-> Data]
    /\ UNCHANGED <<heap, Data, arg, nw>>

ReadString(key) ==
    /\ Writing
    /\ LET r == ReadStringCall(key, heap, Data) IN
        last' = Call("ReadString", key, NilV, r.err, NilV, r.str)
    /\ pre' = [heap |-> heap, Data |-> Data]
    /\ UNCHANGED <<heap, Data, arg, nw>>

Next ==
    \/ \E key \in Keys, value \in Values : Write(key, value)
    \/ \E key \in Keys : Read(key)
    \/ \E key \in Keys : ReadString(key)

Spec == Init /\ [][Next]_vars

---------------------------------------------------------------------------
(* ReadString over the leaf kinds: a record with one field per kind. *)

LeafInts == {0, 7, 300, 12345}
LeafStrings == {<<>>, S_Demo}

LeavesV(n, b, s) ==
    StructV("config.leaves",
        [nm \in FieldNames("config.leaves") |->
            LET T == FieldType("config.leaves", nm) IN
            CASE IsInt(T) -> IntV(T, Wrap(n, T))
              [] T = "bool" -> BoolV(b)
              [] T = "string" -> StrV(s)
              [] OTHER -> Zero(T)])

LeafKeys == FieldNames("config.leaves")

\* l := leaves{...}; New(l) or New(&l)
InitRS ==
    \E n \in LeafInts, b \in BOOLEAN, s \in LeafStrings, byPtr \in BOOLEAN :
        LET h == IF byPtr THEN Heap(<<LeavesV(n, b, s)>>, <<>>) ELSE Heap(<<>>, <<>>)
            v == IF byPtr THEN RefV("*config.leaves", 1) ELSE LeavesV(n, b, s)
        IN  /\ heap = h
            /\ Data = v
            /\ arg = v
            /\ last = Call("New", <<>>, NilV, NoErr, NilV, <<>>)
            /\ pre = [heap |-> h, Data |-> v]
            /\ nw = 0

NextRS ==
    \/ \E key \in LeafKeys : ReadString(key)
    \/ \E key \in LeafKeys : Read(key)

SpecRS == InitRS /\ [][NextRS]_vars

---------------------------------------------------------------------------
(* Vocabulary of the properties *)

\* A call that returned an error value (a panic returns nothing).
Failed(err) == err.kind \notin {"nil", "panic"}

WriteDone == last.op = "Write"
WriteOk == last.op = "Write" /\ last.err = NoErr

RECURSIVE Join(_)
Join(segs) ==
    IF Len(segs) = 1 THEN segs[1] ELSE Prepend(Head(segs), Join(Tail(segs)))

\* p is a prefix of q, segment by segment, ignoring case
FoldPrefix(p, q) ==
    /\ Len(p) <= Len(q)
    /\ \A i \in 1..Len(p) : EqualFold(p[i], q[i])

Related(p, q) ==
    FoldPrefix(Split(p), Split(q)) \/ FoldPrefix(Split(q), Split(p))

SameFolded(p, q) ==
    FoldPrefix(Split(p), Split(q)) /\ FoldPrefix(Split(q), Split(p))

\* A value with what it refers to: maps and pointers followed into the heap.
RECURSIVE Deep(_, _)
Deep(x, h) ==
    [t |-> x.t, n |-> x.n, s |-> x.s, nil |-> (x.r = 0),
     f |-> [nm \in DOMAIN x.f |-> Deep(x.f[nm], h)],
     m |-> IF KindOf(x.t) = "map" /\ x.r # 0
           THEN [k \in DOMAIN h.maps[x.r] |-> Deep(h.maps[x.r][k], h)]
           ELSE <<>>,
     p |-> IF KindOf(x.t) = "ptr" /\ x.r # 0
           THEN <<Deep(h.cells[x.r], h)>>
           ELSE <<>>]

\* What Read(q) returns, with everything the returned value refers to.
Observed(q, h, data) ==
    LET r == ReadCall(q, h, data) IN [err |-> r.err, val |-> r.val, deep |-> Deep(r.val, h)]

\* Where a Write of this path stores its value: the static type of the
\* destination, or why the path does not lead to one.
RECURSIVE DestType(_, _, _)
DestType(key, element, h) ==
    LET k == KindOf(element.typ) IN
    CASE k \in {"interface", "ptr"} ->
           IF Elem(element, h) = Invalid THEN "<empty indirection>"
           ELSE DestType(key, Elem(element, h), h)
      [] k = "struct" ->
           LET i == MatchField(element.typ, Head(key)) IN
           IF i = 0 THEN "<no such key>"
           ELSE IF Len(key) = 1 THEN Fields(element.typ)[i].typ
           ELSE DestType(Tail(key), Field(element, Fields(element.typ)[i], h), h)
      [] k = "map" ->
           LET T == ElemT(element.typ)
               m == Content(element, h).r
               hit == IF m = 0 THEN {} ELSE MatchKey(h.maps[m], Head(key))
               x == IF hit = {} THEN Zero(T) ELSE h.maps[m][CHOOSE y \in hit : TRUE]
           IN  IF Len(key) = 1 THEN T ELSE DestType(Tail(key), Direct(T, x), h)
      [] OTHER -> "<unhandled kind>"

\* The destination of the last call's key, in the state the call started in.
Dest == DestType(Split(last.key), ValueOf(pre.Data), pre.heap)

HasDest == Dest \notin {"<empty indirection>", "<no such key>", "<unhandled kind>"}

\* Nothing that existed when the last call started has changed.
Untouched ==
    /\ Data = pre.Data
    /\ \A i \in DOMAIN pre.heap.cells : heap.cells[i] = pre.heap.cells[i]
    /\ \A i \in DOMAIN pre.heap.maps : heap.maps[i] = pre.heap.maps[i]

---------------------------------------------------------------------------
(* Properties *)

\* C1: Write is all-or-nothing.  When Write returns an error, the handle's
\* root and every variable and map that existed before the call are as they
\* were, and Read of every key returns what it returned before the call.
WriteAllOrNothing ==
    (WriteDone /\ Failed(last.err)) =>
        /\ Untouched
        /\ \A q \in Keys :
               Observed(q, heap, Data) = Observed(q, pre.heap, pre.Data)

\* C1 witness: a Write fails after it has already made a map for a nil map
\* field on its way down (the heap has grown), on a root an earlier Write
\* changed.
WriteFailedAfterAllocating ==
    /\ WriteDone /\ Failed(last.err)
    /\ nw = 2
    /\ heap # pre.heap
    /\ KindOf(arg.t) = "ptr"

\* C2 as claimed: a successful Write(p, v) of a scalar v is read back
\* unchanged by Read(p).
RoundTripUnchanged ==
    (WriteOk /\ KindOf(last.val.t) \in ScalarTypes) =>
        LET r == ReadCall(last.key, heap, Data) IN
        r.err = NoErr /\ r.val = last.val

\* C2 amended: a successful Write(p, v) of a scalar v is read back by
\* Read(p) as v converted to the static type of the destination: v itself
\* when the destination has v's type or is an interface, the converted
\* value (an integer narrowed to the field's width, an integer turned into
\* the text of its code point) otherwise.
RoundTripConverted ==
    (WriteOk /\ KindOf(last.val.t) \in ScalarTypes) =>
        LET r == ReadCall(last.key, heap, Data) IN
        /\ HasDest
        /\ r.err = NoErr
        /\ r.val = Convert(last.val, Dest)
        /\ (Dest = last.val.t \/ KindOf(Dest) = "interface") => r.val = last.val

\* C2 witness: the second Write stored an integer in a field of another
\* type, and Read returns the converted value.
RoundTripOfConvertedValue ==
    /\ WriteOk /\ nw = 2
    /\ IsInt(last.val.t)
    /\ HasDest /\ Dest = "int8"
    /\ ReadCall(last.key, heap, Data).val = IntV("int8", 44)

\* What the caller finds under q in its own variable, going through the
\* pointer it gave to New and not through the handle.
SeenByCaller(q) ==
    LET r == read(Split(q), ValueOf(arg), heap) IN
    [err |-> r.err, val |-> r.val, deep |-> Deep(r.val, heap)]

\* C3: for a handle made by New(&d), after every successful Write(p, v) the
\* caller finds the update in d itself: d and the handle's root agree.
CallerSeesWrite ==
    (WriteOk /\ KindOf(arg.t) = "ptr") =>
        /\ SeenByCaller(last.key).err = NoErr
        /\ SeenByCaller(last.key).deep = Observed(last.key, heap, Data).deep

\* C4 as claimed: sibling preservation.  After a successful Write(p, v),
\* Read(q) returns what it returned before, for every key q that is neither
\* a prefix nor an extension of p, ignoring case.
SiblingReadsUnchanged ==
    WriteOk =>
        \A q \in Keys :
            ~Related(last.key, q) =>
                Observed(q, heap, Data) = Observed(q, pre.heap, pre.Data)

\* C4 amended: after a successful Write(p, v), every key q that is neither a
\* prefix nor an extension of p, ignoring case, and that Read resolved
\* before the Write, is read as before: the other fields and entries keep
\* their values.  (A Read that failed before may fail at a deeper segment
\* afterwards, when q runs through a map entry the Write created.)
SiblingValuesPreserved ==
    WriteOk =>
        \A q \in Keys :
            (~Related(last.key, q) /\ ReadCall(q, pre.heap, pre.Data).err = NoErr) =>
                Observed(q, heap, Data) = Observed(q, pre.heap, pre.Data)

\* C4 witness: the second Write added an entry to a map that already held
\* another one, which Read still finds.
SiblingEntrySurvives ==
    /\ WriteOk /\ nw = 2
    /\ \E i \in DOMAIN pre.heap.maps :
           /\ pre.heap.maps[i] # <<>>
           /\ Cardinality(DOMAIN heap.maps[i]) > Cardinality(DOMAIN pre.heap.maps[i])
    /\ \E q \in Keys :
           ~Related(last.key, q) /\ ReadCall(q, pre.heap, pre.Data).err = NoErr

\* No map holds two keys that are equal ignoring case.
NoFoldedTwins ==
    \A i \in DOMAIN heap.maps :
        \A k1, k2 \in DOMAIN heap.maps[i] : EqualFold(k1, k2) => k1 = k2

ErrorPathIsKeyPrefix ==
    /\ (last.op \in {"Read", "Write"} /\ Failed(last.err)) =>
           LET segs == Split(last.key) IN
           \E i \in 1..Len(segs) :
               /\ last.err.keys = Join(SubSeq(segs, 1, i))
               /\ (last.op = "Read" /\ i > 1) =>
                      ReadCall(Join(SubSeq(segs, 1, i - 1)), heap, Data).err = NoErr
               /\ last.op = "Read" =>
                      ReadCall(Join(SubSeq(segs, 1, i)), heap, Data).err.kind = last.err.kind
    /\ (WriteDone /\ last.key = K_bar
            /\ pre.Data.t \in {"config.data", "*config.data", "**config.Config"}) =>
           last.err = ErrNoSuchKey(K_bar)

\* C6 witness: a Write fails below the first segment, under the path of its
\* first two segments.
ErrorBelowFirstSegment ==
    /\ WriteDone /\ Failed(last.err)
    /\ Len(Split(last.key)) > 2
    /\ Len(Split(last.err.keys)) = 2

\* C7: type mismatch rejection.  A Write whose value cannot be converted to
\* the static type of its destination fails with IncompatibleType for that
\* type and path, at a record field, at a new map entry and at a map entry
\* that exists.
MismatchRejected ==
    (WriteDone /\ HasDest /\ ~CanConvert(last.val.t, Dest)) =>
        last.err = ErrIncompatibleType(Dest, last.key)

\* The entries of the chain demo.Exotic["exotic"].Exotic["exotic"]...
RECURSIVE ExoticDepth(_, _)
ExoticDepth(x, h) ==
    LET m == x.f[N_Exotic].r IN
    IF m = 0 \/ S_exotic \notin DOMAIN h.maps[m] THEN 0
    ELSE 1 + ExoticDepth(h.maps[m][S_exotic], h)

\* The record n entries down that chain.
RECURSIVE ExoticAt(_, _, _)
ExoticAt(x, n, h) ==
    IF n = 0 THEN x ELSE ExoticAt(h.maps[x.f[N_Exotic].r][S_exotic], n - 1, h)

\* Write("exotic.exotic.exotic.exotic.my", "Success!") on New(&demo), with
\* demo.Exotic absent.
DeepWrite ==
    /\ WriteDone
    /\ last.key = K_deep /\ last.val = StrV(S_Success)
    /\ arg.t = "**config.Config"
    /\ pre.heap.cells[1].f[N_Exotic].r = 0

\* C8 as claimed: the deep Write succeeds, creates three nested map entries
\* and sets the my field of the fourth record.
DeepWriteMakesThree ==
    DeepWrite =>
        /\ last.err = NoErr
        /\ ExoticDepth(heap.cells[1], heap) = 3
        /\ ExoticAt(heap.cells[1], 3, heap).f[N_My] = StrV(S_Success)

\* C8 amended: the deep Write succeeds, creates two nested map entries (the
\* path alternates the field Exotic and a map key) and sets the my field of
\* the third record, demo.Exotic["exotic"].Exotic["exotic"].My.
DeepWriteMakesTwo ==
    DeepWrite =>
        /\ last.err = NoErr
        /\ ExoticDepth(heap.cells[1], heap) = 2
        /\ ExoticAt(heap.cells[1], 2, heap).f[N_My] = StrV(S_Success)
        /\ ExoticAt(heap.cells[1], 1, heap).f[N_My] = StrV(<<>>)
        /\ heap.cells[1].f[N_My] = pre.heap.cells[1].f[N_My]
        /\ ReadCall(K_deep, heap, Data).val = StrV(S_Success)

\* C8 witness: the deep Write has been made.
DeepWriteDone == DeepWrite /\ last.err = NoErr

\* C9: ReadString returns the decimal digits of a leaf of any integer kind,
\* "true" or "false" for a boolean, and a string itself.
ReadStringProjects ==
    (last.op = "ReadString" /\ ReadCall(last.key, heap, Data).err = NoErr) =>
        LET x == ReadCall(last.key, heap, Data).val IN
        /\ IsInt(x.t) => (last.err = NoErr /\ last.str = FormatInt(x.n))
        /\ x.t = "bool" => (last.err = NoErr /\ last.str = FormatBool(x.n = 1))
        /\ x.t = "string" => (last.err = NoErr /\ last.str = x.s)

\* The last Write's path runs into an indirection that holds nothing.
ThroughEmpty == WriteDone /\ Dest = "<empty indirection>"

\* C10: a Write whose path passes through an empty indirection (a nil
\* pointer or nil interface at the root, in a record field, or as the zero
\* value of a map entry being created) creates the wrapped value and
\* succeeds.
EmptyIndirectionFilled == ThroughEmpty => last.err = NoErr

\* What write does there: Elem() of the empty indirection is the zero
\* reflect.Value, of kind Invalid, and the default case rejects it.  The
\* Write fails with UnhandledKind for the kind "invalid", under the path up
\* to the first segment not consumed, and changes nothing.
EmptyIndirectionRejected ==
    ThroughEmpty =>
        /\ last.err.kind = "UnhandledKind"
        /\ last.err.info = "invalid"
        /\ \E i \in 1..Len(Split(last.key)) :
               last.err.keys = Join(SubSeq(Split(last.key), 1, i))
        /\ Untouched

\* Write("ptr.my", v) on a record whose Ptr is nil, after an earlier Write.
WriteThroughNilPointer ==
    /\ ThroughEmpty /\ nw = 2
    /\ last.key = K_ptr_my
    /\ last.err.keys = K_ptr_my
===========================================================================
